---- MODULE Spec2Model ----
(***************************************************************************)
(* Model of src/tg.py: the session-ingestion pipeline                      *)
(* (SessionManager.process_zip_file, validate_session) and the account     *)
(* registry (valid_sessions, load_saved_sessions, save_sessions).          *)
(*                                                                         *)
(* One action is one stretch of handler code between two suspension        *)
(* points (awaits): the synchronous code that follows an await, together   *)
(* with the next awaited call and its outcome.                             *)
(***************************************************************************)
EXTENDS Integers, Sequences, FiniteSets, TLC

\* ---------------------------------------------------------------- bounds
MaxRuns     == 2    \* uploads handled during one behaviour
MaxFiles    == 3    \* files inside the sessions/users directory of an archive
NumAccounts == 2    \* distinct Telegram accounts the candidates may belong to
MaxRestarts == 1    \* process restarts (SessionManager constructed again)
MaxClock    == 3    \* ticks of the clock, one for every validate_session call
MaxBatch    == 2    \* messages get_messages returns to get_telegram_messages
MaxDialogs  == 3    \* dialogs of the account a menu action works on

Runs == 1..MaxRuns

\* ------------------------------------------------------------ data domains
PyNone == "<None>"                       \* Python's None

\* the objects client.get_me() may return: for every account one with every
\* optional field set and one with every optional field None
MeIds == { 111 * k : k \in 1..NumAccounts }
Mes ==
  { [id |-> n, phone |-> "+1000", username |-> "alice",
     first_name |-> "Al", last_name |-> "Ice"] : n \in MeIds }
  \cup
  { [id |-> n, phone |-> PyNone, username |-> PyNone,
     first_name |-> PyNone, last_name |-> PyNone] : n \in MeIds }

\* a `x or default` expression of Python on a string-or-None value
OrDefault(x, d) == IF x = PyNone \/ x = "" THEN d ELSE x

\* the uploaded documents: a file that is no ZIP archive, an archive without
\* a sessions/users directory, or an archive whose sessions/users directory
\* holds files 1..Len(ext), ext[n] telling whether file n ends in .session.
\* What validation answers for a file does not depend on its name, so the
\* .session files are given the lower names.
BadZip   == [well_formed |-> FALSE, users_dir |-> FALSE, ext |-> << >>]
NoLayout == [well_formed |-> TRUE,  users_dir |-> FALSE, ext |-> << >>]
ExtSeqs  ==
  { s \in UNION { [1..n -> BOOLEAN] : n \in 0..MaxFiles } :
      \A a, b \in DOMAIN s : (a < b /\ s[b]) => s[a] }
Documents ==
  {BadZip, NoLayout}
  \cup { [well_formed |-> TRUE, users_dir |-> TRUE, ext |-> s] : s \in ExtSeqs }

\* the result dictionaries of validate_session
InvalidResult ==
  [valid |-> FALSE, has_2fa |-> FALSE, user_id |-> PyNone, phone |-> PyNone,
   username |-> PyNone, first_name |-> PyNone, last_name |-> PyNone]
TwoFAResult ==
  [valid |-> TRUE, has_2fa |-> TRUE, user_id |-> PyNone, phone |-> PyNone,
   username |-> PyNone, first_name |-> PyNone, last_name |-> PyNone]
ValidResult(me) ==
  [valid |-> TRUE, has_2fa |-> FALSE,
   user_id    |-> ToString(me.id),
   phone      |-> me.phone,
   username   |-> OrDefault(me.username, "None"),
   first_name |-> OrDefault(me.first_name, "Unknown"),
   last_name  |-> OrDefault(me.last_name, "")]

\* -------------------------------------------------------------- the state
VARIABLES
  valid_sessions,  \* self.valid_sessions: account id -> record
  accounts_file,   \* content of validated_sessions/accounts.json
  cred_files,      \* validated_sessions/<id>.session: id -> credential blob
  temp_files,      \* downloaded archives present in self.temp_dir, by run
  extracted,       \* the directory <temp_dir>/extracted
  open_conns,      \* TelegramClients that are connected: <<run, index>>
  now,             \* datetime.now(); a call of validate_session takes a tick
  restarts,        \* number of process restarts so far
  load_raised,     \* whether the last load_saved_sessions raised to __init__
  proc,            \* the invocations of process_zip_file, by run
  act,             \* the handler of a command, message or button under way
  dialogs,         \* the dialogs of the account a menu action works on
  otp              \* the last call of get_telegram_messages

\* the state of the menu handlers, which ingestion leaves alone
menu_vars == <<act, dialogs, otp>>

vars == <<valid_sessions, accounts_file, cred_files, temp_files, extracted,
          open_conns, now, restarts, load_raised, proc, menu_vars>>

\* a function with an empty domain (an empty dict, an empty directory)
Empty == << >>

NoDir == [exists |-> FALSE, users_dir |-> FALSE, files |-> Empty]

NoFile == [kind |-> "absent", data |-> Empty]

\* the ways validate_session returns, and the verdict each one stands for
Verdict(exit) ==
  CASE exit = "valid" -> "Valid"
    [] exit = "second factor" -> "RequiresSecondFactor"
    [] exit \in {"unauthorized", "connect raised",
                 "is_user_authorized raised", "get_me raised"} -> "Invalid"

NoVerdicts == [Valid |-> 0, RequiresSecondFactor |-> 0, Invalid |-> 0]

IdleProc ==
  [pc |-> "idle", document |-> BadZip, file_path |-> FALSE,
   extract_dir |-> FALSE, session_files |-> << >>, i |-> 0,
   valid_count |-> 0, skipped_2fa |-> 0, invalid_count |-> 0,
   result |-> InvalidResult, status |-> [text |-> "none"], e |-> "none",
   \* what the invocation has done so far, for the properties below
   exit |-> "none",                 \* how the last validate_session returned
   verdicts |-> NoVerdicts,         \* the verdicts returned, by kind
   last_valid |-> Empty,            \* account id -> its last Valid result
   save_calls |-> 0,                \* calls of save_sessions
   before_sessions |-> Empty,       \* valid_sessions at the upload
   before_file |-> NoFile]          \* accounts.json at the upload

\* an invocation that has returned: its locals are gone
Returned == [IdleProc EXCEPT !.pc = "gone"]

\* ------------------------------------------------------- account registry
\* os.path.join(self.sessions_dir, f"{user_id}.session")
SessionPath(user_id) == <<"validated_sessions", user_id, ".session">>

\* the body of the loop of load_saved_sessions for one item of the store
LoadedRecord(user_id, data) ==
  [session_path |-> SessionPath(user_id),
   phone        |-> data.phone,
   username     |-> data.username,
   user_id      |-> user_id,
   first_name   |-> data.first_name,
   last_name    |-> data.last_name,
   validated_at |-> data.validated_at]

\* load_saved_sessions without the os.path.exists test of line 68
LoadSavedSessionsMutant(file, creds) ==
  IF file.kind = "json"
    THEN [k \in DOMAIN file.data |-> LoadedRecord(k, file.data[k])]
    ELSE Empty

\* load_saved_sessions on a fresh instance: the registry it leaves behind.
\* json.load raises on a file that is not a complete JSON document; the
\* handler of line 80 logs the error and load returns normally.
LoadSavedSessions(file, creds) ==
  IF file.kind = "json"
    THEN [k \in { u \in DOMAIN file.data : u \in DOMAIN creds }
            |-> LoadedRecord(k, file.data[k])]
    ELSE Empty

\* whether load_saved_sessions lets an exception escape to its caller
LoadRaises(file) == FALSE

\* save_sessions stamping every record with the time of the save
AccountsDataMutant(sessions) ==
  [k \in DOMAIN sessions |->
     [phone        |-> sessions[k].phone,
      username     |-> sessions[k].username,
      first_name   |-> sessions[k].first_name,
      last_name    |-> sessions[k].last_name,
      validated_at |-> "now"]]

\* the dictionary save_sessions builds and dumps
AccountsData(sessions) ==
  [k \in DOMAIN sessions |->
     [phone        |-> sessions[k].phone,
      username     |-> sessions[k].username,
      first_name   |-> sessions[k].first_name,
      last_name    |-> sessions[k].last_name,
      validated_at |-> sessions[k].validated_at]]

\* the file save_sessions leaves behind: the complete document, or, when the
\* write fails part-way (open(..., 'w') has truncated the file by then), a
\* proper prefix of it
SaveSessions(sessions, write_ok) ==
  IF write_ok THEN [kind |-> "json", data |-> AccountsData(sessions)]
              ELSE [kind |-> "partial", data |-> Empty]

\* the elements of a finite set of numbers in ascending order
Ascending(S) ==
  CHOOSE s \in [1..Cardinality(S) -> S] :
    \A a, b \in 1..Cardinality(S) : a < b => s[a] < s[b]

\* int(user_id) of line 420, for the account ids of the model
IntOf(user_id) == CHOOSE n \in MeIds : ToString(n) = user_id

\* sorted(self.valid_sessions.items(), key=lambda x: int(x[0])) of
\* show_accounts: the records by ascending numeric account id
Listing(sessions) ==
  LET ids == Ascending({ IntOf(k) : k \in DOMAIN sessions })
  IN  [n \in DOMAIN ids |-> sessions[ToString(ids[n])]]

\* no handler of the menu is under way
IdleAct ==
  [pc |-> "idle", handler |-> "none", sender |-> 0, data |-> "none",
   user_id |-> PyNone, reply |-> [text |-> "none"], e |-> "none",
   \* the locals of clear_chats and leave_groups; bound: the counters that
   \* have been assigned
   bound |-> {}, cleared_count |-> 0, total_chats |-> 0, left_count |-> 0,
   admin_count |-> 0, total_groups |-> 0, error_count |-> 0,
   groups_to_leave |-> << >>, pos |-> 0,
   \* the requests kill_all_sessions has sent through the client
   requests |-> << >>]

\* get_telegram_messages has not been called
IdleOtp == [pc |-> "idle"]

Init ==
  /\ valid_sessions = LoadSavedSessions(NoFile, Empty)
  /\ accounts_file = NoFile
  /\ cred_files = Empty
  /\ temp_files = {}
  /\ extracted = NoDir
  /\ open_conns = {}
  /\ now = 0
  /\ restarts = 0
  /\ load_raised = LoadRaises(NoFile)
  /\ proc = [r \in Runs |-> IdleProc]
  /\ act = IdleAct
  /\ dialogs = << >>
  /\ otp = IdleOtp

\* ------------------------------------------------------------ environment
Active(p) == p.pc \notin {"idle", "done", "killed", "gone"}

\* The process stops (crash or shutdown) and is started again: __init__ makes
\* a fresh temp_dir and an empty registry and calls load_saved_sessions.
\* missing: the credential files somebody has removed from the
\* sessions-storage directory in the meantime.
Restart(missing) ==
  LET creds == [k \in DOMAIN cred_files \ missing |-> cred_files[k]] IN
  /\ restarts < MaxRestarts
  /\ restarts' = restarts + 1
  /\ cred_files' = creds
  /\ valid_sessions' = LoadSavedSessions(accounts_file, creds)
  /\ load_raised' = LoadRaises(accounts_file)
  /\ temp_files' = {}
  /\ extracted' = NoDir
  /\ open_conns' = {}
  /\ proc' = [r \in Runs |->
               IF Active(proc[r]) THEN [proc[r] EXCEPT !.pc = "killed"]
               ELSE IF proc[r].pc = "idle" THEN proc[r]
               ELSE Returned]
  /\ UNCHANGED <<accounts_file, now, menu_vars>>

\* ------------------------------------------------- process_zip_file
\* the other variables a step of one invocation may leave alone
OnlyProc ==
  UNCHANGED <<valid_sessions, accounts_file, cred_files, temp_files,
              extracted, open_conns, now, restarts, load_raised>>

Msg(t) == [text |-> t]

\* zip_ref.extractall(extract_dir): the files of the archive of run r are
\* written into the directory, over what it already holds
ExtractAll(dir, doc, r) ==
  LET new == IF doc.users_dir THEN 1..Len(doc.ext) ELSE {}
  IN  [exists    |-> TRUE,
       users_dir |-> dir.users_dir \/ doc.users_dir,
       files     |-> [n \in DOMAIN dir.files \cup new |->
                        IF n \in new
                          THEN [session |-> doc.ext[n], blob |-> <<r, n>>]
                          ELSE dir.files[n]]]

\* os.listdir(sessions_path) without the filter on the suffix
SessionFilesMutant(dir) == Ascending(DOMAIN dir.files)

\* [f for f in os.listdir(sessions_path) if f.endswith('.session')]
SessionFiles(dir) ==
  Ascending({ n \in DOMAIN dir.files : dir.files[n].session })

\* file_handler: an administrator sends a document of type application/zip;
\* process_zip_file answers it with the status message (line 221)
Upload(r, doc) ==
  /\ proc[r].pc = "idle"
  /\ \A q \in Runs : q < r => proc[q].pc # "idle"
  /\ proc' = [q \in Runs |->
       IF q = r
         THEN [IdleProc EXCEPT !.pc = "download", !.document = doc,
                               !.status = Msg("PROCESSING ZIP FILE"),
                               !.before_sessions = valid_sessions,
                               !.before_file = accounts_file]
       ELSE IF Active(proc[q]) \/ proc[q].pc = "idle" THEN proc[q]
       ELSE Returned]
  /\ OnlyProc

\* line 228: await event.download_media(self.temp_dir)
Download(r, ok) ==
  /\ proc[r].pc = "download"
  /\ IF ok
       THEN /\ temp_files' = temp_files \cup {r}
            /\ proc' = [proc EXCEPT ![r].file_path = TRUE,
                                    ![r].pc = "edit_searching"]
       ELSE /\ temp_files' = temp_files
            /\ proc' = [proc EXCEPT ![r].e = "download_media",
                                    ![r].pc = "except"]
  /\ UNCHANGED <<valid_sessions, accounts_file, cred_files, extracted,
                 open_conns, now, restarts, load_raised, menu_vars>>

\* line 230: await status_msg.edit("Searching for sessions folder...")
EditSearching(r, ok) ==
  /\ proc[r].pc = "edit_searching"
  /\ proc' = [proc EXCEPT ![r].status = Msg("SEARCHING"),
                          ![r].pc = IF ok THEN "extract" ELSE "except",
                          ![r].e = IF ok THEN "none" ELSE "edit"]
  /\ OnlyProc
  /\ UNCHANGED menu_vars

\* lines 236-277: extract, look for sessions/users, list the .session files
\* and report what was found
Extract(r, ok) ==
  LET p   == proc[r]
      dir == ExtractAll(extracted, p.document, r)
      fs  == SessionFiles(dir)
      q   == [p EXCEPT !.extract_dir = TRUE]
      Edited(text, next) ==
        [q EXCEPT !.status = Msg(text),
                  !.pc = IF ok THEN next ELSE "except",
                  !.e = IF ok THEN "none" ELSE "edit"]
  IN
  /\ p.pc = "extract"
  /\ IF ~p.document.well_formed
       THEN \* zipfile.ZipFile raises BadZipFile, nothing is extracted
            /\ ok
            /\ extracted' = extracted
            /\ proc' = [proc EXCEPT ![r] =
                          [q EXCEPT !.e = "BadZipFile", !.pc = "except"]]
       ELSE /\ extracted' = dir
            /\ proc' = [proc EXCEPT ![r] =
                 IF ~dir.users_dir
                   THEN Edited("EXTRACTION FAILED", "finally")
                 ELSE IF fs = << >>
                   THEN Edited("NO SESSIONS FOUND", "finally")
                 ELSE [Edited("VALIDATING SESSIONS", "validate")
                         EXCEPT !.session_files = fs]]
  /\ UNCHANGED <<valid_sessions, accounts_file, cred_files, temp_files,
                 open_conns, now, restarts, load_raised, menu_vars>>

\* ------------------------------------------------- validate_session
ProgressEvery == 5

\* a loop that goes on to the next candidate without classifying the result
ReturnMutant(p, res, exit) ==
  [p EXCEPT !.result = res,
            !.pc = "validate",
            !.exit = exit,
            !.verdicts[Verdict(exit)] = @ + 1,
            !.last_valid = IF exit = "valid" THEN (res.user_id :> res) @@ @
                                             ELSE @]

\* validate_session returns res to the loop of process_zip_file, which goes
\* on to the progress report (line 288) or straight to the classification
Return(p, res, exit) ==
  [p EXCEPT !.result = res,
            !.pc = IF p.i % ProgressEvery = 0 \/ p.i = Len(p.session_files)
                     THEN "progress" ELSE "classify",
            !.exit = exit,
            !.verdicts[Verdict(exit)] = @ + 1,
            !.last_valid = IF exit = "valid" THEN (res.user_id :> res) @@ @
                                             ELSE @]

\* validate_session without its try/except: the exception reaches the caller
CaughtMutant(p, exit) == [p EXCEPT !.pc = "except", !.e = exit]

\* lines 398-400: the handler of validate_session logs the exception and
\* returns the invalid result
Caught(p, exit) == Return(p, InvalidResult, exit)

\* a session file TelegramClient had to create because none was there
FreshSession == [session |-> TRUE, blob |-> <<0, 0>>]

\* lines 283-285 and 368-371: the loop takes the next candidate and calls
\* validate_session, which makes the client and connects.  TelegramClient
\* opens the session file, creating it when it is missing; it raises when
\* the directory is gone.
Connect(r, ok) ==
  LET p == proc[r]
      n == p.i + 1
      f == p.session_files[n]
      q == [p EXCEPT !.i = n]
  IN
  /\ p.pc = "validate"
  /\ now < MaxClock
  /\ now' = now + 1
  /\ IF ~extracted.exists
       THEN /\ ~ok
            /\ proc' = [proc EXCEPT ![r] = Caught(q, "connect raised")]
            /\ UNCHANGED <<extracted, open_conns>>
       ELSE /\ extracted' =
                 IF f \in DOMAIN extracted.files THEN extracted
                 ELSE [extracted EXCEPT !.files = (f :> FreshSession) @@ @]
            /\ IF ok
                 THEN /\ open_conns' = open_conns \cup {<<r, n>>}
                      /\ proc' = [proc EXCEPT ![r] =
                                    [q EXCEPT !.pc = "is_user_authorized"]]
                 ELSE /\ open_conns' = open_conns
                      /\ proc' = [proc EXCEPT ![r] = Caught(q, "connect raised")]
  /\ UNCHANGED <<valid_sessions, accounts_file, cred_files, temp_files,
                 restarts, load_raised, menu_vars>>

\* whether the session file of the candidate under validation is one that
\* the client has just created (it then carries no authorization)
IsFresh(p) ==
  /\ extracted.exists
  /\ p.session_files[p.i] \in DOMAIN extracted.files
  /\ extracted.files[p.session_files[p.i]] = FreshSession

\* lines 373-375: await client.is_user_authorized(), which answers True or
\* False or raises; on False the client is disconnected
IsUserAuthorized(r, answer) ==
  LET p == proc[r] IN
  /\ p.pc = "is_user_authorized"
  /\ answer \in {"True", "False", "raise"}
  /\ IsFresh(p) => answer # "True"
  /\ CASE answer = "True" ->
            /\ proc' = [proc EXCEPT ![r].pc = "get_me"]
            /\ open_conns' = open_conns
       [] answer = "False" ->
            /\ proc' = [proc EXCEPT ![r] =
                          Return(p, InvalidResult, "unauthorized")]
            /\ open_conns' = open_conns \ {<<r, p.i>>}
       [] answer = "raise" ->
            /\ proc' = [proc EXCEPT ![r] =
                          Caught(p, "is_user_authorized raised")]
            /\ open_conns' = open_conns
  /\ UNCHANGED <<valid_sessions, accounts_file, cred_files, temp_files,
                 extracted, now, restarts, load_raised, menu_vars>>

\* lines 378-386: await client.get_me() returns the account, raises
\* SessionPasswordNeededError, or raises something else; on the first two
\* the client is disconnected
GetMeAnswers ==
  { [kind |-> "me", me |-> m] : m \in Mes }
  \cup { [kind |-> "SessionPasswordNeededError"], [kind |-> "raise"] }

GetMe(r, answer) ==
  LET p == proc[r] IN
  /\ p.pc = "get_me"
  /\ answer \in GetMeAnswers
  /\ CASE answer.kind = "SessionPasswordNeededError" ->
            /\ proc' = [proc EXCEPT ![r] =
                          Return(p, TwoFAResult, "second factor")]
            /\ open_conns' = open_conns \ {<<r, p.i>>}
       [] answer.kind = "raise" ->
            /\ proc' = [proc EXCEPT ![r] = Caught(p, "get_me raised")]
            /\ open_conns' = open_conns
       [] answer.kind = "me" ->
            /\ proc' = [proc EXCEPT ![r] =
                          Return(p, ValidResult(answer.me), "valid")]
            /\ open_conns' = open_conns \ {<<r, p.i>>}
  /\ UNCHANGED <<valid_sessions, accounts_file, cred_files, temp_files,
                 extracted, now, restarts, load_raised, menu_vars>>

\* --------------------------------------- process_zip_file, the loop body
Counts(p) ==
  [total |-> Len(p.session_files), valid |-> p.valid_count,
   skipped_2fa |-> p.skipped_2fa, invalid |-> p.invalid_count]

\* lines 288-299: the progress report; an error of the edit is swallowed
Progress(r, ok) ==
  LET p == proc[r] IN
  /\ p.pc = "progress"
  /\ proc' = [proc EXCEPT ![r].pc = "classify",
                          ![r].status = IF ok
                             THEN [text |-> "PROGRESS", counts |-> Counts(p)]
                             ELSE @]
  /\ OnlyProc
  /\ UNCHANGED menu_vars

\* datetime.now().isoformat()
IsoFormat(t) == ToString(t)

\* lines 306-314: the record the loop stores for a valid result
NewRecord(res, t) ==
  [session_path |-> SessionPath(res.user_id),
   phone        |-> res.phone,
   username     |-> res.username,
   user_id      |-> res.user_id,
   first_name   |-> res.first_name,
   last_name    |-> res.last_name,
   validated_at |-> IsoFormat(t)]

\* setdefault instead of assignment: a record already there is kept
UpsertMutant(sessions, res, t) ==
  sessions @@ (res.user_id :> NewRecord(res, t))

\* self.valid_sessions[result['user_id']] = {...}
Upsert(sessions, res, t) == (res.user_id :> NewRecord(res, t)) @@ sessions

\* the copy named after the candidate file instead of the account
Copy2Mutant(creds, dir, f, user_id) ==
  (ToString(f) :> dir.files[f].blob) @@ creds

\* shutil.copy2(session_path, work_session_path): the credential files of
\* the sessions-storage directory afterwards
Copy2(creds, dir, f, user_id) == (user_id :> dir.files[f].blob) @@ creds

\* the first branch without its test of has_2fa
BranchMutant(res) == IF res.valid THEN "valid" ELSE "invalid"

\* lines 301-319: which of the three branches a result takes
Branch(res) ==
  IF res.valid /\ ~res.has_2fa THEN "valid"
  ELSE IF res.valid /\ res.has_2fa THEN "2fa"
  ELSE "invalid"

\* the second-factor branch counting as invalid
CountedMutant(p, branch) ==
  [p EXCEPT !.valid_count   = IF branch = "valid" THEN @ + 1 ELSE @,
            !.invalid_count = IF branch # "valid" THEN @ + 1 ELSE @]

\* the counters after the branch taken
Counted(p, branch) ==
  [p EXCEPT !.valid_count   = IF branch = "valid"   THEN @ + 1 ELSE @,
            !.skipped_2fa   = IF branch = "2fa"     THEN @ + 1 ELSE @,
            !.invalid_count = IF branch = "invalid" THEN @ + 1 ELSE @]

\* save_sessions called inside the loop, after the first candidate
AdvanceMutant(p) == [p EXCEPT !.pc = "save"]

\* the loop goes to its next candidate, or ends
Advance(p) ==
  [p EXCEPT !.pc = IF p.i < Len(p.session_files) THEN "validate" ELSE "save"]

\* lines 301-319: classify the result of candidate i; copy2 raises when the
\* source file is gone or the copy fails
Classify(r, copy_ok) ==
  LET p   == proc[r]
      res == p.result
      f   == p.session_files[p.i]
      there == extracted.exists /\ f \in DOMAIN extracted.files
  IN
  /\ p.pc = "classify"
  /\ IF Branch(res) = "valid"
       THEN IF copy_ok /\ there
              THEN /\ cred_files' = Copy2(cred_files, extracted, f, res.user_id)
                   /\ valid_sessions' = Upsert(valid_sessions, res, now)
                   /\ proc' = [proc EXCEPT ![r] = Advance(Counted(p, "valid"))]
              ELSE /\ ~copy_ok
                   /\ proc' = [proc EXCEPT ![r].e = "copy2",
                                           ![r].pc = "except"]
                   /\ UNCHANGED <<cred_files, valid_sessions>>
       ELSE /\ copy_ok
            /\ proc' = [proc EXCEPT ![r] = Advance(Counted(p, Branch(res)))]
            /\ UNCHANGED <<cred_files, valid_sessions>>
  /\ UNCHANGED <<accounts_file, temp_files, extracted, open_conns, now,
                 restarts, load_raised, menu_vars>>

\* lines 322-342: save_sessions(), whose errors are logged and swallowed,
\* and the final report
Save(r, write_ok, edit_ok) ==
  LET p == proc[r] IN
  /\ p.pc = "save"
  /\ accounts_file' = SaveSessions(valid_sessions, write_ok)
  /\ proc' = [proc EXCEPT
       ![r].save_calls = @ + 1,
       ![r].status = [text |-> "VALIDATION COMPLETE", counts |-> Counts(p)],
       ![r].pc = IF edit_ok THEN "finally" ELSE "except",
       ![r].e = IF edit_ok THEN "none" ELSE "edit"]
  /\ UNCHANGED <<valid_sessions, cred_files, temp_files, extracted,
                 open_conns, now, restarts, load_raised, menu_vars>>

\* lines 344-354: the handler of any exception reports it
Except(r) ==
  /\ proc[r].pc = "except"
  /\ proc' = [proc EXCEPT ![r].status = Msg("PROCESSING ERROR"),
                          ![r].pc = "finally"]
  /\ OnlyProc
  /\ UNCHANGED menu_vars

\* a cleanup that forgets the extraction directory
CleanupMutant(p, r, files, dir) ==
  [files |-> IF p.file_path THEN files \ {r} ELSE files, dir |-> dir]

\* os.remove(file_path) and shutil.rmtree(extract_dir) of lines 357-363: the
\* first that raises ends the cleanup
Cleanup(p, r, files, dir) ==
  LET remove_raises == p.file_path /\ r \notin files
  IN  [files |-> IF p.file_path THEN files \ {r} ELSE files,
       dir   |-> IF p.extract_dir /\ ~remove_raises THEN NoDir ELSE dir]

\* lines 355-363: the finally clause
Finally(r) ==
  LET c == Cleanup(proc[r], r, temp_files, extracted) IN
  /\ proc[r].pc = "finally"
  /\ temp_files' = c.files
  /\ extracted' = c.dir
  /\ proc' = [proc EXCEPT ![r].pc = "done"]
  /\ UNCHANGED <<valid_sessions, accounts_file, cred_files, open_conns, now,
                 restarts, load_raised, menu_vars>>

\* ------------------------------------------------------ specification
\* no invocation of process_zip_file is under way
Quiet == \A q \in Runs : ~Active(proc[q])

Step(r) ==
  \/ \E ok \in BOOLEAN : Download(r, ok)
  \/ \E ok \in BOOLEAN : EditSearching(r, ok)
  \/ \E ok \in BOOLEAN : Extract(r, ok)
  \/ \E ok \in BOOLEAN : Connect(r, ok)
  \/ \E a \in {"True", "False", "raise"} : IsUserAuthorized(r, a)
  \/ \E a \in GetMeAnswers : GetMe(r, a)
  \/ \E ok \in BOOLEAN : Progress(r, ok)
  \/ \E ok \in BOOLEAN : Classify(r, ok)
  \/ \E w \in BOOLEAN, ok \in BOOLEAN : Save(r, w, ok)
  \/ Except(r)
  \/ Finally(r)

\* the dispatcher handles one upload at a time
Next ==
  \/ \E r \in Runs, doc \in Documents :
       Quiet /\ Upload(r, doc) /\ UNCHANGED menu_vars
  \/ \E r \in Runs : Step(r)
  \/ \E missing \in SUBSET DOMAIN cred_files : Restart(missing)

Spec == Init /\ [][Next]_vars

\* the archives with at most one file in sessions/users
SmallDocuments == { d \in Documents : Len(d.ext) <= 1 }

\* the dispatcher starts the handler of every upload as a task of its own:
\* an upload is taken while the handlers of earlier ones are suspended at an
\* await, and the handlers go on in any order
NextConcurrent ==
  \/ \E r \in Runs, doc \in SmallDocuments :
       Upload(r, doc) /\ UNCHANGED menu_vars
  \/ \E r \in Runs : Step(r)

SpecConcurrent == Init /\ [][NextConcurrent]_vars

\* ------------------------------------------------ get_telegram_messages
\* a message text is a sequence of characters
Digits == {"0", "1", "2", "3", "4", "5", "6", "7", "8", "9"}

\* what \s of a regular expression matches
WhiteSpace == {" ", "\t", "\n"}

\* str.lower(), which is also how re.IGNORECASE compares letters, for one
\* character
LowerOf ==
  ("A" :> "a") @@ ("B" :> "b") @@ ("C" :> "c") @@ ("D" :> "d")
  @@ ("E" :> "e") @@ ("F" :> "f") @@ ("G" :> "g") @@ ("H" :> "h")
  @@ ("I" :> "i") @@ ("J" :> "j") @@ ("K" :> "k") @@ ("L" :> "l")
  @@ ("M" :> "m") @@ ("N" :> "n") @@ ("O" :> "o") @@ ("P" :> "p")
  @@ ("Q" :> "q") @@ ("R" :> "r") @@ ("S" :> "s") @@ ("T" :> "t")
  @@ ("U" :> "u") @@ ("V" :> "v") @@ ("W" :> "w") @@ ("X" :> "x")
  @@ ("Y" :> "y") @@ ("Z" :> "z")

Lower(c) == IF c \in DOMAIN LowerOf THEN LowerOf[c] ELSE c

\* lines 585-592: each pattern is a phrase followed by :?\s*(\d{5,6}),
\* the last one is (\d{5,6}) alone
BarePattern == [phrase |-> << >>, sep |-> FALSE]

otp_patterns ==
  <<[phrase |-> <<"y", "o", "u", "r", " ", "l", "o", "g", "i", "n", " ",
                 "c", "o", "d", "e">>,
     sep |-> TRUE],
    [phrase |-> <<"k", "o", "d", "e", " ", "m", "a", "s", "u", "k", " ",
                 "a", "n", "d", "a">>,
     sep |-> TRUE],
    [phrase |-> <<"y", "o", "u", "r", " ", "c", "o", "d", "e">>,
     sep |-> TRUE],
    [phrase |-> <<"k", "o", "d", "e">>,
     sep |-> TRUE],
    [phrase |-> <<"c", "o", "d", "e">>,
     sep |-> TRUE],
    BarePattern>>

\* lines 620-621
otp_terms ==
  {<<"c", "o", "d", "e">>,
   <<"t", "e", "l", "e", "g", "r", "a", "m">>,
   <<"l", "o", "g", "i", "n">>,
   <<"v", "e", "r", "i", "f", "i", "c", "a", "t", "i", "o", "n">>,
   <<"k", "o", "d", "e">>,
   <<"m", "a", "s", "u", "k">>,
   <<"v", "e", "r", "i", "f", "i", "k", "a", "s", "i">>}

\* the message texts of the model
SampleTexts ==
  { \* Your login code: 48213
    <<"Y", "o", "u", "r", " ", "l", "o", "g", "i", "n", " ", "c", "o", "d",
     "e", ":", " ", "4", "8", "2", "1", "3">>,
    \* Call me at 481234
    <<"C", "a", "l", "l", " ", "m", "e", " ", "a", "t", " ", "4", "8", "1",
     "2", "3", "4">>,
    \* Kode masuk Anda: 123456
    <<"K", "o", "d", "e", " ", "m", "a", "s", "u", "k", " ", "A", "n", "d",
     "a", ":", " ", "1", "2", "3", "4", "5", "6">>,
    \* TELEGRAM 55555
    <<"T", "E", "L", "E", "G", "R", "A", "M", " ", "5", "5", "5", "5", "5">>,
    \* OTP 777777
    <<"O", "T", "P", " ", "7", "7", "7", "7", "7", "7">>,
    \* Kode: 11111 Your code: 22222
    <<"K", "o", "d", "e", ":", " ", "1", "1", "1", "1", "1", " ", "Y", "o",
     "u", "r", " ", "c", "o", "d", "e", ":", " ", "2", "2", "2", "2", "2">>,
    \* code 1234567
    <<"c", "o", "d", "e", " ", "1", "2", "3", "4", "5", "6", "7">>,
    \* Login code 1234
    <<"L", "o", "g", "i", "n", " ", "c", "o", "d", "e", " ", "1", "2", "3",
     "4">>,
    \* verifikasi 13579 / 24680
    <<"v", "e", "r", "i", "f", "i", "k", "a", "s", "i", " ", "1", "3", "5",
     "7", "9", " ", "/", " ", "2", "4", "6", "8", "0">> }

\* the result of a search that finds nothing
NoMatch == << >>

\* whether the phrase stands in the text at position p, letters compared
\* without regard to case
PhraseAt(phrase, text, p) ==
  /\ p + Len(phrase) - 1 <= Len(text)
  /\ \A n \in 1..Len(phrase) : Lower(text[p + n - 1]) = phrase[n]

\* :? of a pattern
SkipColon(text, p) == IF p <= Len(text) /\ text[p] = ":" THEN p + 1 ELSE p

\* \s* of a pattern
RECURSIVE SkipSpace(_, _)
SkipSpace(text, p) ==
  IF p <= Len(text) /\ text[p] \in WhiteSpace THEN SkipSpace(text, p + 1)
                                               ELSE p

\* \d{5,6}: how many digits, six at most, stand in the text from position p
DigitRun(text, p) ==
  CHOOSE n \in 0..6 :
    /\ \A k \in 0..(n - 1) : p + k <= Len(text) /\ text[p + k] \in Digits
    /\ n < 6 => ~(p + n <= Len(text) /\ text[p + n] \in Digits)

\* the group a match of the pattern at position p captures, or NoMatch
MatchAt(pattern, text, p) ==
  LET after == p + Len(pattern.phrase)
      q == IF pattern.sep THEN SkipSpace(text, SkipColon(text, after))
                          ELSE after
      n == DigitRun(text, q)
  IN  IF PhraseAt(pattern.phrase, text, p) /\ n >= 5
        THEN SubSeq(text, q, q + n - 1)
        ELSE NoMatch

\* re.search(pattern, text, re.IGNORECASE).group(1): the leftmost match
Search(pattern, text) ==
  LET ps == { p \in 1..Len(text) : MatchAt(pattern, text, p) # NoMatch }
  IN  IF ps = {} THEN NoMatch
      ELSE MatchAt(pattern, text, CHOOSE p \in ps : \A o \in ps : p <= o)

\* term in message_content.lower()
Contains(text, term) ==
  \E p \in 1..Len(text) : PhraseAt(term, text, p)

\* line 622: any(term.lower() in message_content.lower() ...)
HasTerm(text, terms) == \E term \in terms : Contains(text, term)

\* a loop over the patterns that does not stop at the first match
TryPatternsMutant(text, k) ==
  LET found == { j \in k..Len(otp_patterns) :
                   /\ Search(otp_patterns[j], text) # NoMatch
                   /\ otp_patterns[j] = BarePattern => HasTerm(text, otp_terms) }
  IN  IF found = {} THEN NoMatch
      ELSE Search(otp_patterns[CHOOSE j \in found : \A o \in found : j >= o],
                  text)

\* lines 613-632: the loop over otp_patterns from pattern k on; the code it
\* takes, or NoMatch
RECURSIVE TryPatterns(_, _)
TryPatterns(text, k) ==
  IF k > Len(otp_patterns) THEN NoMatch
  ELSE LET otp_code == Search(otp_patterns[k], text) IN
       IF otp_code = NoMatch THEN TryPatterns(text, k + 1)
       ELSE IF otp_patterns[k] = BarePattern /\ ~HasTerm(text, otp_terms)
         THEN TryPatterns(text, k + 1)              \* continue
       ELSE otp_code                                \* break

\* line 607, msg_time.strftime('%d/%m/%Y %H:%M UTC'), for a date in seconds;
\* a message without a date gets 'Unknown time'
NoDate == 0
TimeStr(date) ==
  IF date = NoDate THEN "Unknown time" ELSE ToString(date \div 60)

\* lines 625-628
ResultText(otp_code, time_str) ==
  [text |-> "OTP CODE", code |-> otp_code, time |-> time_str]

NotFoundText == [text |-> "Tidak ada pesan OTP ditemukan"]
NoServiceText ==
  [text |-> "Chat dengan layanan Telegram (+42777) tidak ditemukan"]
ErrorText == [text |-> "Error"]

\* a loop over the messages that ignores get_latest_only
ScanMessagesMutant(msgs, n, latest, results) ==
  LET S == { k \in n..Len(msgs) :
               /\ msgs[k].message # << >>
               /\ TryPatterns(msgs[k].message, 1) # NoMatch }
      order == Ascending(S)
  IN  results \o [k \in DOMAIN order |->
                    ResultText(TryPatterns(msgs[order[k]].message, 1),
                               TimeStr(msgs[order[k]].date))]

\* lines 596-635: the loop over service_messages from message n on
RECURSIVE ScanMessages(_, _, _, _)
ScanMessages(msgs, n, latest, results) ==
  IF n > Len(msgs) THEN results
  ELSE LET msg == msgs[n]
           otp_code == TryPatterns(msg.message, 1)
       IN  IF msg.message = << >> \/ otp_code = NoMatch
             THEN ScanMessages(msgs, n + 1, latest, results)
           ELSE IF latest
             THEN Append(results, ResultText(otp_code, TimeStr(msg.date)))
           ELSE ScanMessages(msgs, n + 1, latest,
                  Append(results, ResultText(otp_code, TimeStr(msg.date))))

\* line 581
Limit(get_latest_only) == IF get_latest_only THEN 3 ELSE 10

\* what get_telegram_messages returns
TelegramMessages(service, fetched, service_messages, get_latest_only) ==
  IF service = "raise" THEN <<ErrorText>>
  ELSE IF service = "not found" THEN <<NoServiceText>>
  ELSE IF ~fetched THEN <<ErrorText>>
  ELSE LET results == ScanMessages(service_messages, 1, get_latest_only, << >>)
       IN  IF results # << >> THEN results ELSE <<NotFoundText>>

\* what client.get_messages may return: messages with a text of the model
\* or with none (a media message), dated or not
Dates == {NoDate, 60}
Messages == [message : SampleTexts \cup {<< >>}, date : Dates]
Batches == UNION { [1..n -> Messages] : n \in 0..MaxBatch }

\* the calls get_telegram_messages(client, get_latest_only) of the model.
\* service: whether the lookup of lines 564-575 finds the chat of +42777,
\* finds nothing, or raises in get_dialogs; fetched: whether get_messages
\* returns service_messages or raises
Calls ==
  { c \in [pc : {"call"}, service : {"found", "not found", "raise"},
           fetched : BOOLEAN, service_messages : Batches,
           get_latest_only : BOOLEAN] :
      /\ (c.service # "found" \/ ~c.fetched) => c.service_messages = << >>
      /\ c.service # "found" => c.fetched
      /\ Len(c.service_messages) <= Limit(c.get_latest_only) }

\* get_telegram_messages runs and returns
GetTelegramMessages ==
  /\ otp.pc = "call"
  /\ otp' = [pc |-> "returned", service |-> otp.service,
             fetched |-> otp.fetched,
             service_messages |-> otp.service_messages,
             get_latest_only |-> otp.get_latest_only,
             returned |-> TelegramMessages(otp.service, otp.fetched,
                            otp.service_messages, otp.get_latest_only)]
  /\ UNCHANGED <<valid_sessions, accounts_file, cred_files, temp_files,
                 extracted, open_conns, now, restarts, load_raised, proc,
                 act, dialogs>>

InitOtp ==
  /\ valid_sessions = Empty
  /\ accounts_file = NoFile
  /\ cred_files = Empty
  /\ temp_files = {}
  /\ extracted = NoDir
  /\ open_conns = {}
  /\ now = 0
  /\ restarts = 0
  /\ load_raised = FALSE
  /\ proc = [r \in Runs |-> IdleProc]
  /\ act = IdleAct
  /\ dialogs = << >>
  /\ otp \in Calls

NextOtp == GetTelegramMessages

\* get_telegram_messages, called on each batch of messages of the model
SpecOtp == InitOtp /\ [][NextOtp]_vars

\* ------------------------------------------------ the handlers of start_bot
\* ADMIN_IDS of line 1081 holds two user ids; everybody else is a stranger
ADMIN_IDS == {1, 2}
Senders == ADMIN_IDS \cup {3}

\* an allow-list that lets everybody in
IsAdminMutant(user_id) == TRUE

\* is_admin
IsAdmin(user_id) == user_id \in ADMIN_IDS

\* what a message may carry: nothing, a document that is no ZIP file by its
\* MIME type, or one of the documents of the model
Attachments ==
  { [mime_type |-> "none", document |-> BadZip],
    [mime_type |-> "image/png", document |-> BadZip] }
  \cup { [mime_type |-> "application/zip", document |-> d] : d \in Documents }

\* the account ids a button may carry: the accounts of the model
UserIds == { ToString(n) : n \in MeIds }

\* the data of the buttons: event.data up to the first underscore
ViewData == {"show_accounts", "back_accounts", "bot_info", "back_main"}
ActionData == {"clear", "leavegroups"}

\* the dispatcher hands over one event at a time: no handler is under way
Accepting == act.pc \in {"idle", "done"} /\ Quiet

\* a handler that has run to its end, and what the sender was shown
Handled(handler, sender, data, user_id, reply) ==
  [IdleAct EXCEPT !.pc = "done", !.handler = handler, !.sender = sender,
                  !.data = data, !.user_id = user_id, !.reply = reply]

\* check_admin_access answers a stranger (lines 48-55); callback_handler
\* answers with an alert (line 149)
AccessDenied == [text |-> "ACCESS DENIED"]
AccessDeniedAlert == [text |-> "ACCESS DENIED - Admin Only!", alert |-> TRUE]

\* lines 112-131
Welcome(sessions) ==
  [text |-> "TELEGRAM SESSION MANAGER", sessions |-> Cardinality(DOMAIN sessions)]

\* show_accounts: the list of the accounts, or the notice that none is there
Accounts(sessions) ==
  IF DOMAIN sessions = {}
    THEN [text |-> "ACCOUNT MANAGER", accounts |-> << >>]
    ELSE [text |-> "ACCOUNT MANAGER",
          accounts |-> [n \in DOMAIN Listing(sessions) |->
                          Listing(sessions)[n].user_id]]

\* show_bot_info
BotInfo(sessions) ==
  [text |-> "BOT INFORMATION", sessions |-> Cardinality(DOMAIN sessions),
   admins |-> Cardinality(ADMIN_IDS)]

\* the variables the handlers of commands and views leave alone
OnlyAct ==
  UNCHANGED <<valid_sessions, accounts_file, cred_files, temp_files,
              extracted, open_conns, now, restarts, load_raised, proc, otp>>

\* start_handler, on a message /start
StartHandler(sender) ==
  /\ Accepting
  /\ act' = Handled("start_handler", sender, "none", PyNone,
                    IF IsAdmin(sender) THEN Welcome(valid_sessions)
                                       ELSE AccessDenied)
  /\ dialogs' = << >>
  /\ OnlyAct

\* accounts_handler, on a message /akun
AccountsHandler(sender) ==
  /\ Accepting
  /\ act' = Handled("accounts_handler", sender, "none", PyNone,
                    IF IsAdmin(sender) THEN Accounts(valid_sessions)
                                       ELSE AccessDenied)
  /\ dialogs' = << >>
  /\ OnlyAct

\* file_handler, on any message: a ZIP document of an administrator goes to
\* process_zip_file
FileHandler(sender, attachment) ==
  /\ Accepting
  /\ act' = Handled("file_handler", sender, attachment.mime_type, PyNone,
                    IF IsAdmin(sender) THEN [text |-> "none"]
                                       ELSE AccessDenied)
  /\ dialogs' = << >>
  /\ otp' = otp
  /\ IF IsAdmin(sender) /\ attachment.mime_type = "application/zip"
       THEN \E r \in Runs : Upload(r, attachment.document)
       ELSE UNCHANGED <<valid_sessions, accounts_file, cred_files, temp_files,
                        extracted, open_conns, now, restarts, load_raised, proc>>

\* callback_handler on a button that only shows something
ViewCallback(sender, data) ==
  /\ Accepting
  /\ data \in ViewData
  /\ act' = Handled("callback_handler", sender, data, PyNone,
              IF ~IsAdmin(sender) THEN AccessDeniedAlert
              ELSE IF data \in {"show_accounts", "back_accounts"}
                THEN Accounts(valid_sessions)
              ELSE IF data = "bot_info" THEN BotInfo(valid_sessions)
              ELSE Welcome(valid_sessions))
  /\ dialogs' = << >>
  /\ OnlyAct

\* callback_handler on the button of an action on an account: clear_chats
\* and leave_groups begin with their loading message, shown by edit or, when
\* that fails, by respond
ActionCallback(sender, data, user_id) ==
  /\ Accepting
  /\ data \in ActionData
  /\ act' = IF ~IsAdmin(sender)
              THEN Handled("callback_handler", sender, data, user_id,
                           AccessDeniedAlert)
              ELSE [Handled("callback_handler", sender, data, user_id,
                            [text |-> IF data = "clear" THEN "CLEARING CHATS"
                                                        ELSE "LEAVING GROUPS"])
                      EXCEPT !.pc = "connect"]
  /\ dialogs' = << >>
  /\ OnlyAct

\* ------------------------------------------ clear_chats and leave_groups
\* the dialogs client.iter_dialogs() yields: private chats (is_user),
\* groups (is_group) and channels (is_channel)
DialogKinds == {"user", "group", "channel"}

DialogLists == UNION { [1..n -> DialogKinds] : n \in 0..MaxDialogs }

\* what the account is in a group or channel
Roles == {"member", "admin", "creator"}

\* a dialog nothing has been done with: its permissions are unchecked and it
\* is not deleted
Untouched(kind) ==
  [kind |-> kind, role |-> "unknown", perm |-> "unchecked", deleted |-> FALSE]

\* the client of the account of a menu action, among the open connections
Client(user_id) == <<0, IntOf(user_id)>>

\* what client.get_permissions(dialog.entity, me) reports for a role
Permissions(role) ==
  [is_admin |-> role \in {"admin", "creator"}, is_creator |-> role = "creator"]

\* a test that looks at is_creator only
StaysMutant(permissions) == permissions.is_creator

\* line 826: permissions.is_admin or permissions.is_creator
Stays(permissions) == permissions.is_admin \/ permissions.is_creator

\* the variables a step of a menu action leaves alone
OnlyMenu ==
  UNCHANGED <<valid_sessions, accounts_file, cred_files, temp_files,
              extracted, now, restarts, load_raised, proc, otp>>

\* lines 712-719 and 804-818: look the account up in the registry, make the
\* client, connect (leave_groups: and get_me), set the counters.  ds: the
\* dialogs the account has.
ActionConnect(outcome, ds) ==
  LET known == act.user_id \in DOMAIN valid_sessions
      clear == act.data = "clear"
      raised(e) == [act EXCEPT !.pc = "except", !.e = e]
  IN
  /\ act.pc = "connect"
  /\ outcome \in {"KeyError", "connect raised", "get_me raised", "ok"}
  /\ outcome = "KeyError" <=> ~known
  /\ outcome = "get_me raised" => ~clear
  /\ outcome # "ok" => ds = << >>
  /\ open_conns' = IF outcome \in {"ok", "get_me raised"}
                     THEN open_conns \cup {Client(act.user_id)}
                     ELSE open_conns
  /\ dialogs' = [n \in DOMAIN ds |-> Untouched(ds[n])]
  /\ act' = IF outcome # "ok" THEN raised(outcome)
            ELSE IF clear
              THEN [act EXCEPT !.bound = {"cleared_count", "total_chats"},
                               !.pc = "count"]
            ELSE [act EXCEPT !.bound = {"left_count", "admin_count",
                                        "total_groups", "error_count"},
                             !.pos = 1,
                             !.pc = IF ds = << >> THEN "finish" ELSE "analyze"]
  /\ OnlyMenu

\* lines 722-734 of clear_chats: the first pass over the dialogs counts the
\* private chats; the status edit that follows may fail without effect
ClearChatsCount(ok) ==
  /\ act.pc = "count"
  /\ act' = IF ok
       THEN [act EXCEPT
               !.total_chats =
                  Cardinality({ n \in DOMAIN dialogs : dialogs[n].kind = "user" }),
               !.pos = 1,
               !.pc = IF dialogs = << >> THEN "finish" ELSE "delete"]
       ELSE [act EXCEPT !.pc = "except", !.e = "iter_dialogs raised"]
  /\ UNCHANGED <<dialogs, open_conns>>
  /\ OnlyMenu

\* the loop goes to the next dialog, or ends
NextDialog(a, last) ==
  [a EXCEPT !.pos = @ + 1, !.pc = IF a.pos < last THEN a.pc ELSE "finish"]

\* lines 737-759 of clear_chats: the second pass takes the dialog at pos; a
\* private chat is deleted, and a failure of that is logged and passed over
ClearChatsDelete(outcome) ==
  LET d == dialogs[act.pos] IN
  /\ act.pc = "delete"
  /\ outcome \in {"ok", "delete_dialog raised", "iter_dialogs raised"}
  /\ d.kind # "user" => outcome # "delete_dialog raised"
  /\ IF outcome = "iter_dialogs raised"
       THEN /\ act' = [act EXCEPT !.pc = "except", !.e = outcome]
            /\ dialogs' = dialogs
       ELSE IF d.kind = "user" /\ outcome = "ok"
         THEN /\ dialogs' = [dialogs EXCEPT ![act.pos].deleted = TRUE]
              /\ act' = NextDialog([act EXCEPT !.cleared_count = @ + 1],
                                   Len(dialogs))
         ELSE /\ dialogs' = dialogs
              /\ act' = NextDialog(act, Len(dialogs))
  /\ open_conns' = open_conns
  /\ OnlyMenu

\* lines 820-846 of leave_groups: the pass over the dialogs takes the dialog
\* at pos; for a group or channel it asks for the permissions of the account
\* (the outcome is the role they report, or a failure) and puts the dialog
\* on the list to leave or counts it as administered; a failure of the check
\* is logged and counted
LeaveGroupsAnalyze(outcome) ==
  LET d == dialogs[act.pos]
      counted == [act EXCEPT !.total_groups = @ + 1]
      last == Len(dialogs)
      done(a) ==
        [a EXCEPT !.pos = IF act.pos < last THEN act.pos + 1 ELSE 1,
                  !.pc = IF act.pos < last THEN "analyze"
                         ELSE IF a.groups_to_leave = << >> THEN "finish"
                         ELSE "leave"]
  IN
  /\ act.pc = "analyze"
  /\ outcome \in Roles \cup {"get_permissions raised", "iter_dialogs raised"}
  /\ d.kind = "user" => outcome \in {"member", "iter_dialogs raised"}
  /\ IF outcome = "iter_dialogs raised"
       THEN /\ act' = [act EXCEPT !.pc = "except", !.e = outcome]
            /\ dialogs' = dialogs
       ELSE IF d.kind = "user"
         THEN /\ act' = done(act)
              /\ dialogs' = dialogs
       ELSE IF outcome = "get_permissions raised"
         THEN /\ act' = done([counted EXCEPT !.error_count = @ + 1])
              /\ dialogs' = [dialogs EXCEPT ![act.pos].perm = "raised"]
       ELSE /\ dialogs' = [dialogs EXCEPT ![act.pos].perm = "ok",
                                          ![act.pos].role = outcome]
            /\ act' = done(IF Stays(Permissions(outcome))
                 THEN [counted EXCEPT !.admin_count = @ + 1]
                 ELSE [counted EXCEPT
                         !.groups_to_leave = Append(@, act.pos)])
  /\ open_conns' = open_conns
  /\ OnlyMenu

\* lines 849-873 of leave_groups: delete the dialog of the next group on
\* the list; a failure is logged and counted
LeaveGroupsDelete(ok) ==
  LET n == act.groups_to_leave[act.pos] IN
  /\ act.pc = "leave"
  /\ IF ok
       THEN /\ dialogs' = [dialogs EXCEPT ![n].deleted = TRUE]
            /\ act' = NextDialog([act EXCEPT !.left_count = @ + 1],
                                 Len(act.groups_to_leave))
       ELSE /\ dialogs' = dialogs
            /\ act' = NextDialog([act EXCEPT !.error_count = @ + 1],
                                 Len(act.groups_to_leave))
  /\ open_conns' = open_conns
  /\ OnlyMenu

\* lines 761-775 and 875-890: disconnect and show the results
ActionFinish(outcome) ==
  /\ act.pc = "finish"
  /\ outcome \in {"ok", "disconnect raised", "edit raised"}
  /\ open_conns' = IF outcome = "disconnect raised" THEN open_conns
                   ELSE open_conns \ {Client(act.user_id)}
  /\ act' = IF outcome # "ok"
              THEN [act EXCEPT !.pc = "except", !.e = outcome]
            ELSE IF act.data = "clear"
              THEN [act EXCEPT !.pc = "done",
                      !.reply = [text |-> "CHAT CLEARING COMPLETE",
                                 cleared |-> act.cleared_count,
                                 total |-> act.total_chats]]
            ELSE [act EXCEPT !.pc = "done",
                    !.reply = [text |-> "GROUP EXIT COMPLETE",
                               left |-> act.left_count,
                               admin |-> act.admin_count,
                               total |-> act.total_groups,
                               errors |-> act.error_count]]
  /\ dialogs' = dialogs
  /\ OnlyMenu

\* the locals the error report of an action reads
ReportReads(data) ==
  IF data = "clear" THEN {"cleared_count"} ELSE {"left_count", "admin_count"}

\* lines 777-788 and 892-904: the handler of any exception of the action
\* builds the error report and shows it by edit or, when that fails, by
\* respond.  Reading a counter that was never assigned raises
\* UnboundLocalError out of the action, and callback_handler (lines 181-184)
\* answers with the text of that exception.
ActionExcept ==
  /\ act.pc = "except"
  /\ act' = [act EXCEPT !.pc = "done", !.reply =
       IF ~(ReportReads(act.data) \subseteq act.bound)
         THEN [text |-> "Error", e |-> "UnboundLocalError", alert |-> TRUE]
       ELSE IF act.data = "clear"
         THEN [text |-> "CHAT CLEARING ERROR", e |-> act.e,
               cleared |-> act.cleared_count]
       ELSE [text |-> "GROUP EXIT ERROR", e |-> act.e,
             left |-> act.left_count, admin |-> act.admin_count]]
  /\ UNCHANGED <<dialogs, open_conns>>
  /\ OnlyMenu

\* ------------------------------------------------------ kill_all_sessions
\* the request classes lines 14-16 import into the module
Imported ==
  {"GetPasswordRequest", "GetAuthorizationsRequest",
   "ResetAuthorizationRequest", "GetHistoryRequest", "SendCodeRequest"}

\* callback_handler on the button killall_<user_id>: kill_all_sessions
\* begins with its loading message, shown by edit or, when that fails, by
\* respond
KillAllCallback(sender, user_id) ==
  /\ Accepting
  /\ act' = IF ~IsAdmin(sender)
              THEN Handled("callback_handler", sender, "killall", user_id,
                           AccessDeniedAlert)
              ELSE [Handled("callback_handler", sender, "killall", user_id,
                            [text |-> "TERMINATING SESSIONS"])
                      EXCEPT !.pc = "kill_connect"]
  /\ dialogs' = << >>
  /\ OnlyAct

\* lines 1018-1022: look the account up, make the client, connect
KillAllConnect(outcome) ==
  /\ act.pc = "kill_connect"
  /\ outcome \in {"KeyError", "connect raised", "ok"}
  /\ outcome = "KeyError" <=> act.user_id \notin DOMAIN valid_sessions
  /\ open_conns' = IF outcome = "ok"
                     THEN open_conns \cup {Client(act.user_id)}
                     ELSE open_conns
  /\ act' = IF outcome = "ok" THEN [act EXCEPT !.pc = "kill_requests"]
            ELSE [act EXCEPT !.pc = "kill_except", !.e = outcome]
  /\ dialogs' = dialogs
  /\ OnlyMenu

\* the calls over the network of lines 1025-1057, in their order
KillAllCalls ==
  <<"GetAuthorizationsRequest", "ResetAuthorizationsRequest",
    "GetAuthorizationsRequest", "disconnect", "edit">>

\* lines 1025-1057: list the authorizations, reset the others, list again,
\* disconnect and show the results.  failed: the call that raises (0: none);
\* before, after: the other authorizations the two listings show.  A request
\* whose class is not a name of the module cannot be made: evaluating the
\* name raises NameError.
KillAllRequests(failed, before, after) ==
  LET unbound == { n \in 1..3 : KillAllCalls[n] \notin Imported }
      stop == IF unbound = {} THEN 0
              ELSE CHOOSE n \in unbound : \A k \in unbound : n <= k
      \* the call at which the handler is left, and why
      named == stop # 0 /\ (failed = 0 \/ failed >= stop)
      last == IF named THEN stop - 1
              ELSE IF failed = 0 THEN Len(KillAllCalls) ELSE failed
      e == IF named THEN "NameError"
           ELSE IF failed = 0 THEN "none"
           ELSE "network call raised"
      sent == { n \in 1..3 : n <= last }
  IN
  /\ act.pc = "kill_requests"
  /\ failed \in 0..Len(KillAllCalls)
  /\ named => failed = 0
  /\ (e # "none" \/ before = 0) => after = 0
  /\ e # "none" => before = 0
  /\ open_conns' = IF last >= 4 /\ ~(failed = 4)
                     THEN open_conns \ {Client(act.user_id)}
                     ELSE open_conns
  /\ act' = IF e = "none"
       THEN [act EXCEPT
               !.pc = "done",
               !.requests = [n \in 1..3 |-> KillAllCalls[n]],
               !.reply = [text |-> "SESSION TERMINATION COMPLETE",
                          killed |-> before, remaining |-> after]]
       ELSE [act EXCEPT
               !.pc = "kill_except", !.e = e,
               !.requests = [n \in 1..Cardinality(sent) |-> KillAllCalls[n]]]
  /\ dialogs' = dialogs
  /\ OnlyMenu

\* lines 1059-1074: the handler of any exception of kill_all_sessions shows
\* the error report, by edit or, when that fails, by respond
KillAllExcept ==
  /\ act.pc = "kill_except"
  /\ act' = [act EXCEPT !.pc = "done",
               !.reply = [text |-> "SESSION TERMINATION ERROR", e |-> act.e]]
  /\ UNCHANGED <<dialogs, open_conns>>
  /\ OnlyMenu

\* the bot with one account in its registry, stored by an earlier run and
\* loaded at the start
InitMenu ==
  LET me == CHOOSE m \in Mes : m.id = 111 /\ m.phone # PyNone
      sessions == Upsert(Empty, ValidResult(me), 1)
  IN
  /\ valid_sessions = sessions
  /\ accounts_file = SaveSessions(sessions, TRUE)
  /\ cred_files = ("111" :> <<1, 1>>)
  /\ temp_files = {}
  /\ extracted = NoDir
  /\ open_conns = {}
  /\ now = 1
  /\ restarts = 1
  /\ load_raised = FALSE
  /\ proc = [r \in Runs |-> IF r = 1 THEN Returned ELSE IdleProc]
  /\ act = IdleAct
  /\ dialogs = << >>
  /\ otp = IdleOtp

NextMenu ==
  \/ \E sender \in Senders : StartHandler(sender)
  \/ \E sender \in Senders : AccountsHandler(sender)
  \/ \E sender \in Senders, attachment \in Attachments :
       FileHandler(sender, attachment)
  \/ \E sender \in Senders, data \in ViewData : ViewCallback(sender, data)
  \/ \E sender \in Senders, data \in ActionData, user_id \in UserIds :
       ActionCallback(sender, data, user_id)
  \/ \E outcome \in {"KeyError", "connect raised", "get_me raised", "ok"},
        ds \in DialogLists : ActionConnect(outcome, ds)
  \/ \E ok \in BOOLEAN : ClearChatsCount(ok)
  \/ \E outcome \in {"ok", "delete_dialog raised", "iter_dialogs raised"} :
       ClearChatsDelete(outcome)
  \/ \E outcome \in Roles \cup {"get_permissions raised", "iter_dialogs raised"} :
       LeaveGroupsAnalyze(outcome)
  \/ \E ok \in BOOLEAN : LeaveGroupsDelete(ok)
  \/ \E outcome \in {"ok", "disconnect raised", "edit raised"} :
       ActionFinish(outcome)
  \/ ActionExcept
  \/ \E sender \in Senders, user_id \in UserIds :
       KillAllCallback(sender, user_id)
  \/ \E outcome \in {"KeyError", "connect raised", "ok"} :
       KillAllConnect(outcome)
  \/ \E failed \in 0..Len(KillAllCalls), before, after \in 0..1 :
       KillAllRequests(failed, before, after)
  \/ KillAllExcept

\* the handlers of messages and buttons, one event at a time
SpecMenu == InitMenu /\ [][NextMenu]_vars

\* ----------------------------------------------------------------- get_otp
\* callback_handler on the button getotp_<user_id>: get_otp begins with its
\* loading message, shown by edit or, when that fails, by respond
GetOtpCallback(sender, user_id) ==
  /\ Accepting
  /\ act' = IF ~IsAdmin(sender)
              THEN Handled("callback_handler", sender, "getotp", user_id,
                           AccessDeniedAlert)
              ELSE [Handled("callback_handler", sender, "getotp", user_id,
                            [text |-> "SEARCHING OTP"])
                      EXCEPT !.pc = "otp_connect"]
  /\ dialogs' = << >>
  /\ otp' = IdleOtp
  /\ UNCHANGED <<valid_sessions, accounts_file, cred_files, temp_files,
                 extracted, open_conns, now, restarts, load_raised, proc>>

\* the calls get_otp makes: get_latest_only=True (line 663)
OtpCalls == { c \in Calls : c.get_latest_only }

\* lines 657-663: look the account up, make the client, connect, and call
\* get_telegram_messages.  call: what the account's chats will answer.
GetOtpConnect(outcome, call) ==
  LET known == act.user_id \in DOMAIN valid_sessions IN
  /\ act.pc = "otp_connect"
  /\ outcome \in {"KeyError", "connect raised", "ok"}
  /\ outcome = "KeyError" <=> ~known
  /\ call \in OtpCalls
  /\ IF outcome = "ok"
       THEN /\ open_conns' = open_conns \cup {Client(act.user_id)}
            /\ otp' = call
            /\ act' = [act EXCEPT !.pc = "otp_fetch"]
       ELSE /\ open_conns' = open_conns
            /\ otp' = otp
            /\ act' = [act EXCEPT !.pc = "otp_except", !.e = outcome]
  /\ UNCHANGED <<valid_sessions, accounts_file, cred_files, temp_files,
                 extracted, now, restarts, load_raised, proc, dialogs>>

\* lines 667-681: the report get_otp builds from what
\* get_telegram_messages returned
OtpText(otp_messages) ==
  IF otp_messages # << >> /\ otp_messages[1] # NoServiceText
    THEN [text |-> "OTP RETRIEVED", message |-> otp_messages[1]]
    ELSE [text |-> "NO OTP FOUND"]

\* lines 665-684: get_telegram_messages has returned; disconnect, build the
\* report and show it
GetOtpReport(outcome) ==
  /\ act.pc = "otp_fetch"
  /\ otp.pc = "returned"
  /\ outcome \in {"ok", "disconnect raised", "edit raised"}
  /\ open_conns' = IF outcome = "disconnect raised" THEN open_conns
                   ELSE open_conns \ {Client(act.user_id)}
  /\ act' = IF outcome = "ok"
              THEN [act EXCEPT !.pc = "done", !.reply = OtpText(otp.returned)]
              ELSE [act EXCEPT !.pc = "otp_except", !.e = outcome]
  /\ UNCHANGED <<valid_sessions, accounts_file, cred_files, temp_files,
                 extracted, now, restarts, load_raised, proc, dialogs, otp>>

\* lines 686-696: the handler of any exception of get_otp shows the error
\* report, by edit or, when that fails, by respond
GetOtpExcept ==
  /\ act.pc = "otp_except"
  /\ act' = [act EXCEPT !.pc = "done",
                        !.reply = [text |-> "OTP FETCH ERROR", e |-> act.e]]
  /\ UNCHANGED <<valid_sessions, accounts_file, cred_files, temp_files,
                 extracted, open_conns, now, restarts, load_raised, proc,
                 dialogs, otp>>

NextGetOtp ==
  \/ \E sender \in Senders, user_id \in UserIds :
       GetOtpCallback(sender, user_id)
  \/ \E outcome \in {"KeyError", "connect raised", "ok"}, call \in OtpCalls :
       GetOtpConnect(outcome, call)
  \/ GetTelegramMessages
  \/ \E outcome \in {"ok", "disconnect raised", "edit raised"} :
       GetOtpReport(outcome)
  \/ GetOtpExcept

\* the button getotp_<user_id>, pressed again and again
SpecGetOtp == InitMenu /\ [][NextGetOtp]_vars

\* ------------------------------------------------------------ properties
Complete(p) == p.status.text = "VALIDATION COMPLETE"

\* C1: the summary a run reports counts every candidate once, under its
\* verdict: total = N, valid + second-factor-skipped + invalid = N, the
\* second-factor and invalid counts are the numbers k and m of such verdicts,
\* and valid = N - k - m.
C1_SummaryCountsEveryCandidate ==
  \A r \in Runs :
    LET p == proc[r]
        c == p.status.counts
        k == p.verdicts.RequiresSecondFactor
        m == p.verdicts.Invalid
    IN  Complete(p) =>
          /\ c.total = Len(p.session_files)
          /\ c.valid + c.skipped_2fa + c.invalid = c.total
          /\ c.skipped_2fa = k
          /\ c.invalid = m
          /\ c.valid = c.total - k - m

C1_Witness ==
  \E r \in Runs :
    /\ Complete(proc[r])
    /\ proc[r].status.counts.total = 3
    /\ proc[r].verdicts = [Valid |-> 1, RequiresSecondFactor |-> 1, Invalid |-> 1]

\* the records of a registry other than the one of account k
Others(sessions, k) == [x \in DOMAIN sessions \ {k} |-> sessions[x]]

C2_OnlyValidChanges ==
  /\ (valid_sessions' # valid_sessions /\ restarts' = restarts) =>
       \E r \in Runs :
         /\ proc[r].pc = "classify"
         /\ proc[r].exit = "valid"
         /\ Others(valid_sessions', proc[r].result.user_id)
              = Others(valid_sessions, proc[r].result.user_id)
  /\ accounts_file' # accounts_file => \E r \in Runs : proc[r].pc = "save"

C2_Scenario ==
  \A r \in Runs :
    LET p == proc[r] IN
    ( /\ p.pc = "done"
      /\ Complete(p)
      /\ p.before_sessions = Empty
      /\ p.verdicts = [Valid |-> 1, RequiresSecondFactor |-> 1, Invalid |-> 1] )
    => /\ p.status.counts =
            [total |-> 3, valid |-> 1, skipped_2fa |-> 1, invalid |-> 1]
       /\ DOMAIN valid_sessions = DOMAIN p.last_valid
       /\ Cardinality(DOMAIN valid_sessions) = 1

\* C2: during ingestion the registry changes only in the classification of
\* a candidate whose verdict is Valid, and only in the record of that
\* candidate's account; accounts.json changes only in save_sessions.  A
\* batch of one valid, one second-factor and one invalid file run on an
\* empty registry reports 3/1/1/1 and leaves exactly one record.
C2_RegistryOnlyFromValid == []C2_Scenario /\ [][C2_OnlyValidChanges]_vars

C2_Witness ==
  \E r \in Runs :
    /\ proc[r].pc = "done"
    /\ Complete(proc[r])
    /\ proc[r].before_sessions = Empty
    /\ proc[r].verdicts = [Valid |-> 1, RequiresSecondFactor |-> 1, Invalid |-> 1]
    /\ DOMAIN valid_sessions = {"111"}

\* the identity fields of a registry record are those of a result
SameIdentity(rec, res) ==
  /\ rec.user_id = res.user_id
  /\ rec.phone = res.phone
  /\ rec.username = res.username
  /\ rec.first_name = res.first_name
  /\ rec.last_name = res.last_name

C3_Overwrite ==
  \A r \in Runs :
    LET p  == proc[r]
        id == p.result.user_id
    IN  ( /\ p.pc = "classify"
          /\ p.exit = "valid"
          /\ proc'[r].pc \in {"validate", "save"}
          /\ id \in DOMAIN valid_sessions )
        => /\ DOMAIN valid_sessions' = DOMAIN valid_sessions
           /\ SameIdentity(valid_sessions'[id], p.result)
           /\ valid_sessions'[id].validated_at = IsoFormat(now)
           /\ valid_sessions'[id].validated_at # valid_sessions[id].validated_at

C3_LastWins ==
  \A r \in Runs :
    LET p == proc[r] IN
    p.pc = "save" =>
      \A id \in DOMAIN p.last_valid :
        /\ id \in DOMAIN valid_sessions
        /\ SameIdentity(valid_sessions[id], p.last_valid[id])

\* C3: a Valid candidate whose account is already in the registry replaces
\* the identity fields and validated_at of that record and leaves the number
\* of records as it is; after the loop the record of an account is the one
\* of its last Valid occurrence in the batch.
C3_UpsertReplaces == []C3_LastWins /\ [][C3_Overwrite]_vars

C3_Witness ==
  \E r \in Runs :
    LET p == proc[r] IN
    /\ p.pc = "save"
    /\ p.verdicts.Valid >= 2
    /\ \E id \in DOMAIN p.last_valid \cap DOMAIN p.before_sessions :
         /\ DOMAIN p.last_valid = {id}
         /\ valid_sessions[id].phone # p.before_sessions[id].phone
         /\ DOMAIN valid_sessions = DOMAIN p.before_sessions

\* an upload that holds no candidate: no archive, no sessions/users
\* directory, or no .session file in it
NoCandidates(doc) ==
  \/ ~doc.well_formed
  \/ ~doc.users_dir
  \/ \A n \in DOMAIN doc.ext : ~doc.ext[n]

FailureMessages ==
  {"EXTRACTION FAILED", "NO SESSIONS FOUND", "PROCESSING ERROR"}

\* C4: a run on an upload without candidates ends with a failure message,
\* never calls validate_session, and leaves valid_sessions and accounts.json
\* as they were at the upload.
C4_NoCandidatesNoChange ==
  \A r \in Runs :
    LET p == proc[r] IN
    (p.pc = "done" /\ NoCandidates(p.document)) =>
      /\ p.status.text \in FailureMessages
      /\ p.i = 0
      /\ valid_sessions = p.before_sessions
      /\ accounts_file = p.before_file

C4_Witness ==
  \E r \in Runs :
    LET p == proc[r] IN
    /\ p.pc = "done"
    /\ p.document.users_dir
    /\ Len(p.document.ext) > 0
    /\ NoCandidates(p.document)
    /\ p.status.text = "NO SESSIONS FOUND"
    /\ p.before_sessions # Empty
    /\ accounts_file.kind = "json"

RaisedExits ==
  {"connect raised", "is_user_authorized raised", "get_me raised"}

\* C5: an error inside validate_session comes back as the invalid result,
\* and it does not end the batch: a run that got into the loop and was not
\* stopped by a failing copy has validated every candidate and has called
\* save_sessions.
C5_ValidationErrorsAbsorbed ==
  \A r \in Runs :
    LET p == proc[r] IN
    /\ (p.pc \in {"progress", "classify"} /\ p.exit \in RaisedExits)
         => p.result = InvalidResult
    /\ (p.pc \in {"except", "finally", "done"} /\ p.i >= 1 /\ p.e # "copy2")
         => (p.i = Len(p.session_files) /\ p.save_calls = 1)

C5_Witness ==
  \E r \in Runs :
    LET p == proc[r] IN
    /\ p.pc = "done"
    /\ Len(p.session_files) = 3
    /\ p.verdicts.Invalid = 2
    /\ p.verdicts.Valid = 1
    /\ p.exit \in RaisedExits
    /\ p.save_calls = 1

\* C6: when validate_session has returned, the connection it opened is
\* closed, whatever the exit path.
C6_ConnectionReleased ==
  \A r \in Runs :
    proc[r].pc \in {"progress", "classify"} => <<r, proc[r].i>> \notin open_conns

\* C7: when a run has ended, its downloaded archive and the extraction
\* directory are gone from the scratch area.
C7_ScratchRemoved ==
  \A r \in Runs :
    proc[r].pc = "done" => (r \notin temp_files /\ ~extracted.exists)

C7_Witness ==
  \E r \in Runs :
    /\ proc[r].pc = "done"
    /\ proc[r].e = "copy2"
    /\ proc[r].file_path
    /\ proc[r].extract_dir
    /\ proc[r].i = 2

\* the classification has just stored candidate i of run r as valid
JustUpserted(p) ==
  /\ p.pc \in {"validate", "save"}
  /\ p.i >= 1
  /\ p.exit = "valid"

InScratch(f) == extracted.exists /\ f \in DOMAIN extracted.files

\* C8 as claimed: right after the upsert of a Valid candidate the scratch
\* area holds no copy of its credential file.
C8_NoScratchCopyAfterUpsert ==
  \A r \in Runs :
    JustUpserted(proc[r]) => ~InScratch(proc[r].session_files[proc[r].i])

\* C8 as amended: handling a Valid candidate copies its credential file to
\* <account_id>.session in the sessions-storage directory; right after the
\* upsert the scratch area still holds the file, and it holds it no longer
\* once the run has ended.
C8_CopiedThenSwept ==
  \A r \in Runs :
    LET p == proc[r]
        f == p.session_files[p.i]
        id == p.result.user_id
    IN  /\ JustUpserted(p) =>
             /\ InScratch(f)
             /\ id \in DOMAIN cred_files
             /\ cred_files[id] = extracted.files[f].blob
             /\ valid_sessions[id].session_path = SessionPath(id)
        /\ (p.pc = "done" /\ p.verdicts.Valid >= 1) => ~extracted.exists

C8_Witness ==
  \E r \in Runs :
    /\ JustUpserted(proc[r])
    /\ proc[r].pc = "validate"
    /\ proc[r].i = 2
    /\ cred_files[proc[r].result.user_id] = <<r, 2>>

\* a restart loads a well-formed accounts.json
C9_Load ==
  (restarts' # restarts /\ accounts_file.kind = "json") =>
    /\ DOMAIN valid_sessions' = DOMAIN accounts_file.data \cap DOMAIN cred_files'
    /\ \A k \in DOMAIN valid_sessions' :
         /\ valid_sessions'[k].phone = accounts_file.data[k].phone
         /\ valid_sessions'[k].username = accounts_file.data[k].username
         /\ valid_sessions'[k].validated_at = accounts_file.data[k].validated_at
    /\ ~load_raised'

\* C9: load admits exactly the persisted records whose credential file
\* exists, with the persisted fields; a record whose file is missing is left
\* out, the others are admitted, and load does not raise.
C9_LoadAdmitsIffCredentialExists == [][C9_Load]_vars

C9_Witness ==
  /\ restarts = 1
  /\ Quiet
  /\ \A r \in Runs : proc[r].pc \in {"idle", "gone"}
  /\ accounts_file.kind = "json"
  /\ load_raised = FALSE
  /\ \E k, j \in DOMAIN accounts_file.data :
       /\ k \notin DOMAIN cred_files
       /\ DOMAIN valid_sessions = {j}
       /\ DOMAIN cred_files = {j}

\* a restart reports a failure of load exactly for a malformed accounts.json
C10_Load ==
  restarts' # restarts => (load_raised' <=> accounts_file.kind = "partial")

\* C10: load on a malformed accounts.json fails (RegistryCorruptError), and
\* it fails in no other case: not on a missing credential file, not on a
\* missing or well-formed store.
C10_CorruptStoreRaises == [][C10_Load]_vars

\* a save step leaves accounts.json as it was or holding the complete new
\* document
C11_Save ==
  \/ accounts_file' = accounts_file
  \/ accounts_file' = [kind |-> "json", data |-> AccountsData(valid_sessions)]

\* C11: save never leaves accounts.json in a state that is neither its
\* previous content nor the complete new content, also when the write is
\* interrupted part-way.
C11_SaveKeepsGoodFile == [][C11_Save]_vars

\* the fields of a record that the round trip is about
Persisted(rec) ==
  [phone |-> rec.phone, username |-> rec.username,
   first_name |-> rec.first_name, last_name |-> rec.last_name,
   validated_at |-> rec.validated_at]

\* a save whose write completes, on a registry whose credential files all
\* exist, followed by load on a fresh instance
C12_SaveThenLoad ==
  LET loaded == LoadSavedSessions(accounts_file', cred_files') IN
  ( /\ \E r \in Runs : proc'[r].save_calls = proc[r].save_calls + 1
    /\ accounts_file'.kind = "json"
    /\ DOMAIN valid_sessions \subseteq DOMAIN cred_files )
  => /\ DOMAIN loaded = DOMAIN valid_sessions
     /\ \A k \in DOMAIN loaded :
          Persisted(loaded[k]) = Persisted(valid_sessions[k])
     /\ Len(Listing(loaded)) = Len(Listing(valid_sessions))
     /\ \A n \in DOMAIN Listing(loaded) :
          /\ Listing(loaded)[n].user_id = Listing(valid_sessions)[n].user_id
          /\ Persisted(Listing(loaded)[n]) = Persisted(Listing(valid_sessions)[n])

\* C12: for a registry whose credential files all exist, save followed by
\* load on a fresh instance gives the same account ids with the same phone,
\* username, first_name, last_name and validated_at, and the same listing by
\* ascending account id.
C12_RoundTrip == [][C12_SaveThenLoad]_vars

C12_Witness ==
  /\ accounts_file.kind = "json"
  /\ Cardinality(DOMAIN accounts_file.data) = 2
  /\ \E k, j \in DOMAIN accounts_file.data :
       /\ accounts_file.data[k].phone = PyNone
       /\ accounts_file.data[j].phone # PyNone
       /\ accounts_file.data[k].validated_at # accounts_file.data[j].validated_at
  /\ \E r \in Runs : proc[r].pc = "finally" /\ proc[r].save_calls = 1
  /\ LoadSavedSessions(accounts_file, cred_files) = valid_sessions

\* the candidates of a run that have been classified
Classified(p) == p.valid_count + p.skipped_2fa + p.invalid_count

\* the results validate_session has returned to a run
Validated(p) == p.verdicts.Valid + p.verdicts.RequiresSecondFactor
                  + p.verdicts.Invalid

\* C19: a run writes accounts.json at most once, and only after it has
\* classified its last candidate; a run that has classified all its
\* candidates and gone on has written it once; as long as a run has not
\* written it (also once the process has been killed mid-batch) the file
\* holds its content from before the run, whatever credential files the run
\* has stored already.
C19_SingleWriteAtBatchEnd ==
  \A r \in Runs :
    LET p == proc[r]
        n == Len(p.session_files)
    IN  /\ p.save_calls <= 1
        /\ p.save_calls = 1 => (n >= 1 /\ p.i = n /\ Classified(p) = n)
        /\ (p.pc \in {"except", "finally", "done"} /\ n >= 1 /\ Classified(p) = n)
             => p.save_calls = 1
        /\ (p.pc \notin {"idle", "gone"} /\ p.save_calls = 0)
             => accounts_file = p.before_file

C19_Witness ==
  \E r \in Runs :
    LET p == proc[r] IN
    /\ p.pc = "killed"
    /\ p.save_calls = 0
    /\ p.verdicts.Valid >= 1
    /\ Classified(p) >= 1
    /\ Classified(p) < Len(p.session_files)
    /\ accounts_file = p.before_file
    /\ accounts_file.kind = "json"
    /\ \E k \in DOMAIN cred_files : k \notin DOMAIN accounts_file.data

\* where a run stands with candidate i
C20_OneAtATime ==
  \A r \in Runs :
    LET p == proc[r] IN
    /\ p.pc = "validate" => (Validated(p) = p.i /\ Classified(p) = p.i)
    /\ p.pc \in {"is_user_authorized", "get_me"}
         => (Validated(p) = p.i - 1 /\ Classified(p) = p.i - 1)
    /\ p.pc \in {"progress", "classify"}
         => (Validated(p) = p.i /\ Classified(p) = p.i - 1)

\* a run takes its candidates in the order of session_files, and what it
\* stores in the registry is the result of the candidate it is at
C20_InOrder ==
  \A r \in Runs :
    LET p == proc[r] IN
    /\ (proc'[r].i # p.i /\ proc'[r].pc \notin {"idle", "gone", "download"})
         => (p.pc = "validate" /\ proc'[r].i = p.i + 1 /\ Classified(p) = p.i)
    /\ (p.pc = "classify" /\ valid_sessions' # valid_sessions
          /\ restarts' = restarts)
         => /\ Classified(proc'[r]) = p.i
            /\ SameIdentity(valid_sessions'[p.result.user_id], p.result)
            /\ p.last_valid[p.result.user_id] = p.result

\* C20: a run validates its candidates one after another in listing order:
\* the validation of a candidate starts only when every earlier candidate
\* has been validated and classified, no validation is under way while
\* another result awaits classification, and the upserts follow that order.
C20_SequentialValidation == []C20_OneAtATime /\ [][C20_InOrder]_vars

C20_Witness ==
  \E r \in Runs :
    LET p == proc[r] IN
    /\ p.pc = "get_me"
    /\ p.i = 3
    /\ Classified(p) = 2
    /\ p.valid_count = 2
    /\ Cardinality(DOMAIN valid_sessions) = 2

\* get_telegram_messages has looked up the service chat, fetched the batch
\* and scanned it
Scanned == otp.pc = "returned" /\ otp.service = "found" /\ otp.fetched

\* the codes among the elements of a returned list
Codes(returned) == SelectSeq(returned, LAMBDA x : x.text = "OTP CODE")

\* one of the phrase patterns matches the text
PhraseMatches(text) ==
  \E k \in 1..(Len(otp_patterns) - 1) : Search(otp_patterns[k], text) # NoMatch

\* the bare-digit pattern is the only pattern that matches the text
BareOnly(text) == ~PhraseMatches(text) /\ Search(BarePattern, text) # NoMatch

\* the keywords the claim names
ClaimedTerms == otp_terms \cup {<<"o", "t", "p">>}

\* C14: a message that only the bare 5-6 digit pattern matches yields a
\* code if and only if its text contains, in any case, one of the keywords
\* code, telegram, login, verification, otp, kode, masuk, verifikasi.
C14_FallbackNeedsKeyword ==
  ( /\ Scanned
    /\ Len(otp.service_messages) = 1
    /\ BareOnly(otp.service_messages[1].message) )
  => ( Len(Codes(otp.returned)) = 1
         <=> HasTerm(otp.service_messages[1].message, ClaimedTerms) )

\* no pattern matches the text, or only the bare one and no keyword is there
YieldsNoCode(text) ==
  \/ text = << >>
  \/ ~PhraseMatches(text) /\ Search(BarePattern, text) = NoMatch
  \/ BareOnly(text) /\ ~HasTerm(text, ClaimedTerms)

\* C15: when no message of the batch yields a code (the batch is empty, or
\* its messages hold no digits or bare digits without a keyword), the
\* matcher returns a sequence with zero elements.
C15_NoCodeGivesEmpty ==
  ( /\ Scanned
    /\ \A n \in DOMAIN otp.service_messages :
         YieldsNoCode(otp.service_messages[n].message) )
  => otp.returned = << >>

\* the first pattern, in list order, that matches the text
FirstMatching(text) ==
  CHOOSE k \in DOMAIN otp_patterns :
    /\ Search(otp_patterns[k], text) # NoMatch
    /\ \A j \in 1..(k - 1) : Search(otp_patterns[j], text) = NoMatch

\* the message yields a code: a pattern matches, and when the first one that
\* does is the bare one, a keyword of otp_terms is there
Yields(text) ==
  /\ text # << >>
  /\ \E k \in DOMAIN otp_patterns : Search(otp_patterns[k], text) # NoMatch
  /\ otp_patterns[FirstMatching(text)] = BarePattern => HasTerm(text, otp_terms)

\* the result for a message that yields a code
CodeOf(msg) ==
  ResultText(Search(otp_patterns[FirstMatching(msg.message)], msg.message),
             TimeStr(msg.date))

\* C16: the code of a message is the one captured by the first pattern in
\* list order that matches it; with get_latest_only the result holds one
\* code at most, the code of the earliest message of the batch that yields
\* one; without it, the codes of all such messages in batch order.
C16_FirstPatternFirstMessage ==
  Scanned =>
    LET msgs  == otp.service_messages
        Y     == { n \in DOMAIN msgs : Yields(msgs[n].message) }
        order == Ascending(Y)
        codes == Codes(otp.returned)
    IN  IF otp.get_latest_only
          THEN /\ Len(codes) <= 1
               /\ Y = {} => codes = << >>
               /\ Y # {} => otp.returned = <<CodeOf(msgs[order[1]])>>
          ELSE /\ Len(codes) = Cardinality(Y)
               /\ \A k \in DOMAIN order : codes[k] = CodeOf(msgs[order[k]])

C16_Witness ==
  /\ Scanned
  /\ otp.get_latest_only
  /\ Len(otp.service_messages) = 2
  /\ \A n \in 1..2 : Yields(otp.service_messages[n].message)
  /\ Search(BarePattern, otp.service_messages[1].message)
       = <<"1", "1", "1", "1", "1">>
  /\ otp.service_messages[2].message # otp.service_messages[1].message
  /\ otp.returned =
       <<ResultText(<<"2", "2", "2", "2", "2">>,
                    TimeStr(otp.service_messages[1].date))>>


\* the dialogs the action under way has deleted
Deleted == { n \in DOMAIN dialogs : dialogs[n].deleted }

\* an event of a sender outside ADMIN_IDS is under no handler past the gate
C13_StrangerStopped ==
  (act.handler # "none" /\ act.sender \notin ADMIN_IDS) =>
    /\ act.pc = "done"
    /\ act.reply \in {AccessDenied, AccessDeniedAlert}

\* the handler of such an event answers with the denial and touches nothing
C13_StrangerStep ==
  (act.pc \in {"idle", "done"} /\ act'.sender \notin ADMIN_IDS) =>
    /\ act'.pc = "done"
    /\ act'.reply \in {AccessDenied, AccessDeniedAlert}
    /\ UNCHANGED <<valid_sessions, accounts_file, cred_files, temp_files,
                   extracted, open_conns, proc>>

\* C13: a message, command, upload or button callback of a sender who is
\* not in ADMIN_IDS is answered with a denial and nothing more happens: no
\* archive is processed, the registry and its file stay as they are, no
\* connection is opened, and no action begins.
C13_AdminGate == []C13_StrangerStopped /\ [][C13_StrangerStep]_vars

\* a stranger sent a ZIP file: denied, and no run of process_zip_file began
C13_Witness ==
  /\ act.handler = "file_handler"
  /\ act.sender \notin ADMIN_IDS
  /\ act.data = "application/zip"
  /\ act.reply = AccessDenied
  /\ \A r \in Runs : proc[r].pc \in {"idle", "gone"}
  /\ open_conns = {}

\* C17: when clear_chats or leave_groups ends by an error, whatever the step,
\* the sender is shown the error report of the action with the number of
\* dialogs it had deleted, and never the bare text of an exception.
C17_ErrorReport ==
  (act.pc = "done" /\ act.e # "none") =>
    IF act.data = "clear"
      THEN /\ act.reply.text = "CHAT CLEARING ERROR"
           /\ act.reply.cleared = Cardinality(Deleted)
      ELSE /\ act.reply.text = "GROUP EXIT ERROR"
           /\ act.reply.left = Cardinality(Deleted)

\* C18: leave_groups deletes the dialog of a group or channel only when
\* get_permissions succeeded and reported the account as neither admin nor
\* creator; dialogs of administered groups and dialogs whose check raised
\* stay.
C18_LeavesOnlyPlainMember ==
  act.data = "leavegroups" =>
    \A n \in Deleted :
      /\ dialogs[n].kind \in {"group", "channel"}
      /\ dialogs[n].perm = "ok"
      /\ dialogs[n].role = "member"

\* leave_groups ended having left one group, kept one the account
\* administers and kept one whose check raised
C18_Witness ==
  /\ act.data = "leavegroups"
  /\ act.pc = "done"
  /\ act.reply.text = "GROUP EXIT COMPLETE"
  /\ \E a, b, c \in DOMAIN dialogs :
       /\ dialogs[a].deleted
       /\ dialogs[b].perm = "ok" /\ dialogs[b].role = "admin"
       /\ ~dialogs[b].deleted
       /\ dialogs[c].perm = "raised" /\ ~dialogs[c].deleted


\* the records a store file holds: those of the document, none when the
\* file is absent or is not a complete document
Stored(file) == IF file.kind = "json" THEN file.data ELSE Empty

\* C21: once a run of process_zip_file has ended without a crash of the
\* process, by success or by an error at whatever step, accounts.json holds
\* the account ids and fields of valid_sessions: no upsert of the run is
\* left in memory only.
C21_DurableIsMemory ==
  \A r \in Runs :
    proc[r].pc = "done" => Stored(accounts_file) = AccountsData(valid_sessions)


\* the candidates a run under way still has to read: those the loop has not
\* come to, the one under validation, and the one found Valid until it is
\* copied
Needed(p) ==
  IF p.pc \notin {"validate", "is_user_authorized", "get_me", "progress",
                  "classify"}
    THEN {}
    ELSE { n \in DOMAIN p.session_files : n > p.i }
         \cup (IF \/ p.pc \in {"is_user_authorized", "get_me"}
                  \/ /\ p.pc \in {"progress", "classify"}
                     /\ Branch(p.result) = "valid"
                 THEN {p.i} ELSE {})

\* C22: with the handlers of two uploads interleaving at their awaits, a run
\* validates and copies only files of its own archive, and the files it
\* still has to read are there: the cleanup of the other run has not deleted
\* them.
C22_RunsKeepApart ==
  \A r \in Runs : \A n \in Needed(proc[r]) :
    LET f == proc[r].session_files[n] IN
    /\ extracted.exists
    /\ f \in DOMAIN extracted.files
    /\ extracted.files[f].blob[1] = r


\* C23: when the fetch extracts no code (no message matches, the service
\* chat is not found, or getting the messages fails) get_otp shows NO OTP
\* FOUND or an error report; OTP RETRIEVED is shown only with a code that
\* was extracted from a message.
C23_RetrievedOnlyWithCode ==
  (act.data = "getotp" /\ act.pc = "done" /\ act.sender \in ADMIN_IDS) =>
    /\ act.reply.text \in {"OTP RETRIEVED", "NO OTP FOUND", "OTP FETCH ERROR"}
    /\ act.reply.text = "OTP RETRIEVED" =>
         /\ Codes(otp.returned) # << >>
         /\ act.reply.message = Codes(otp.returned)[1]


\* C24: for a registered account whose session connects and whose
\* authorizations are listed, kill_all_sessions sends the request that
\* resets all other authorizations and ends in SESSION TERMINATION COMPLETE;
\* SESSION TERMINATION ERROR is shown only when a call over the network
\* failed.
C24_KillAllCompletes ==
  ( /\ act.data = "killall" /\ act.pc = "done"
    /\ act.sender \in ADMIN_IDS
    /\ act.user_id \in DOMAIN valid_sessions
    /\ act.e \notin {"connect raised", "network call raised"} )
  => /\ act.reply.text = "SESSION TERMINATION COMPLETE"
     /\ \E n \in DOMAIN act.requests :
          act.requests[n] = "ResetAuthorizationsRequest"

====
